---- MODULE Spec2Model ----
(***************************************************************************)
(* Model of src/Fib.py: the spiral generator generate_fibonacci_points,    *)
(* its test routine test_spiral_dimensions and the execute handler of the  *)
(* host command.                                                           *)
(*                                                                         *)
(* Numbers.  A Python float is modelled as a fixed-point integer with      *)
(* resolution 1/ONE (1.0 is ONE).  float('inf') is the value Inf.  An      *)
(* angle is kept in units of pi/50, so that 2*pi is TwoPi = 100 units and  *)
(* math.cos, math.sin and math.pow(phi, 2*angle/pi) are tables over the    *)
(* whole angle units.  The inputs are drawn from the values for which      *)
(* i * angle_increment is a whole number of units, which covers every row  *)
(* of the table of test_spiral_dimensions.                                 *)
(***************************************************************************)
EXTENDS Integers, Sequences, FiniteSets, TLC

VARIABLES
  caller,           \* who runs: a direct call, the test routine or the host
  pc,               \* the position of the running code
  args,             \* num_points, scale, turns, height of the running call
  i,                \* the index of the running loop of the generator
  unscaled_points,  \* list of (x, y)
  bbox,             \* min_x, max_x, min_y, max_y
  max_dim,          \* max_dimension
  factor,           \* scaling_factor
  z_inc,            \* z_increment
  current_z,
  points,           \* the result list
  raised_line,      \* the line that raised ZeroDivisionError, 0 if none
  test_cases,       \* the table of test_spiral_dimensions
  case_idx,         \* the row of the table the test loop is at
  test_result,      \* what test_spiral_dimensions returned and printed
  host,             \* what the handler finds in the host application
  host_result       \* how notify ended

gen_vars == <<i, unscaled_points, bbox, max_dim, factor, z_inc, current_z, points, raised_line>>

test_vars == <<test_cases, case_idx, test_result>>

host_vars == <<host, host_result>>

vars == <<caller, pc, args, gen_vars, test_vars, host_vars>>

----------------------------------------------------------------------------
(* Fixed-point arithmetic of the floats.                                   *)

ONE == 100 * 100

Inf == 2000000000

NegInf == -Inf

TwoPi == 100

Abs(a) == IF a < 0 THEN -a ELSE a

Sgn(a) == IF a < 0 THEN -1 ELSE 1

IsInf(a) == a = Inf \/ a = NegInf

Min2(a, b) == IF b < a THEN b ELSE a

Max2(a, b) == IF b > a THEN b ELSE a

\* a - b on floats: an infinite operand decides the result.
FSub(a, b) ==
  IF IsInf(a) THEN a
  ELSE IF IsInf(b) THEN -b
  ELSE a - b

\* a * b on finite floats, truncated to the resolution; the product is
\* formed limb by limb so that no intermediate exceeds 32 bits.
FMul(a, b) ==
  LET ah == Abs(a) \div ONE
      al == Abs(a) % ONE
      bh == Abs(b) \div ONE
      bl == Abs(b) % ONE
  IN  Sgn(a) * Sgn(b) * (ah * bh * ONE + ah * bl + al * bh + (al * bl) \div ONE)

\* a / b on floats, b # 0, a finite: long division, two base-100 digits
\* after the point.  A finite value over an infinity is 0.
FDiv(a, b) ==
  IF IsInf(b) THEN 0
  ELSE LET A  == Abs(a)
           B  == Abs(b)
           q1 == A \div B
           r1 == A % B
           q2 == (r1 * 100) \div B
           r2 == (r1 * 100) % B
           q3 == (r2 * 100) \div B
       IN  Sgn(a) * Sgn(b) * (q1 * ONE + q2 * 100 + q3)

\* a / n for a float a and a non-zero int n.
FDivInt(a, n) == Sgn(a) * Sgn(n) * (Abs(a) \div Abs(n))

----------------------------------------------------------------------------
(* math.cos, math.sin and math.pow(phi, .) over whole angle units.  Entry  *)
(* k+1 of CosTable is cos(k*pi/50), of SinTable sin(k*pi/50) and of        *)
(* PowPhiTable phi^(k/25) = phi^(2*(k*pi/50)/pi), each rounded to 1/ONE.   *)

CosTable ==
  <<
     10000, 9980, 9921, 9823, 9686, 9511, 9298, 9048, 8763, 8443,
     8090, 7705, 7290, 6845, 6374, 5878, 5358, 4818, 4258, 3681,
     3090, 2487, 1874, 1253, 628, 0, -628, -1253, -1874, -2487,
     -3090, -3681, -4258, -4818, -5358, -5878, -6374, -6845, -7290, -7705,
     -8090, -8443, -8763, -9048, -9298, -9511, -9686, -9823, -9921, -9980,
     -10000, -9980, -9921, -9823, -9686, -9511, -9298, -9048, -8763, -8443,
     -8090, -7705, -7290, -6845, -6374, -5878, -5358, -4818, -4258, -3681,
     -3090, -2487, -1874, -1253, -628, 0, 628, 1253, 1874, 2487,
     3090, 3681, 4258, 4818, 5358, 5878, 6374, 6845, 7290, 7705,
     8090, 8443, 8763, 9048, 9298, 9511, 9686, 9823, 9921, 9980
  >>

SinTable ==
  <<
     0, 628, 1253, 1874, 2487, 3090, 3681, 4258, 4818, 5358,
     5878, 6374, 6845, 7290, 7705, 8090, 8443, 8763, 9048, 9298,
     9511, 9686, 9823, 9921, 9980, 10000, 9980, 9921, 9823, 9686,
     9511, 9298, 9048, 8763, 8443, 8090, 7705, 7290, 6845, 6374,
     5878, 5358, 4818, 4258, 3681, 3090, 2487, 1874, 1253, 628,
     0, -628, -1253, -1874, -2487, -3090, -3681, -4258, -4818, -5358,
     -5878, -6374, -6845, -7290, -7705, -8090, -8443, -8763, -9048, -9298,
     -9511, -9686, -9823, -9921, -9980, -10000, -9980, -9921, -9823, -9686,
     -9511, -9298, -9048, -8763, -8443, -8090, -7705, -7290, -6845, -6374,
     -5878, -5358, -4818, -4258, -3681, -3090, -2487, -1874, -1253, -628
  >>

PowPhiTable ==
  <<
     10000, 10194, 10392, 10594, 10800, 11010, 11224, 11442, 11665, 11891,
     12123, 12358, 12598, 12843, 13093, 13347, 13607, 13871, 14141, 14416,
     14696, 14981, 15272, 15569, 15872, 16180, 16495, 16815, 17142, 17475,
     17815, 18161, 18514, 18874, 19241, 19615, 19996, 20385, 20781, 21185,
     21596, 22016, 22444, 22880, 23325, 23778, 24240, 24711, 25192, 25681,
     26180, 26689, 27208, 27737, 28276, 28825, 29385, 29957, 30539, 31132,
     31737, 32354, 32983, 33624, 34277, 34944, 35623, 36315, 37021, 37740,
     38474, 39222, 39984, 40761, 41553, 42361, 43184, 44023, 44879, 45751,
     46640, 47547, 48471, 49413, 50373, 51352, 52350, 53368, 54405, 55462,
     56540, 57639, 58759, 59901, 61065, 62252, 63462, 64695, 65953, 67234,
     68541, 69873, 71231, 72615, 74027, 75465, 76932, 78427, 79951, 81505,
     83089, 84704, 86350, 88029, 89739, 91484, 93262, 95074, 96922, 98806,
     100726, 102683, 104679, 106713, 108787, 110902, 113057, 115254, 117494, 119778,
     122106, 124479, 126898, 129364, 131878, 134441, 137054, 139718, 142433, 145202,
     148024, 150900, 153833, 156823, 159871, 162978, 166145, 169374, 172666, 176022,
     179443, 182930, 186485, 190110, 193805, 197571, 201411, 205325, 209316, 213384,
     217531, 221759, 226068, 230462, 234941, 239507, 244162, 248907, 253745, 258676,
     263704, 268829, 274053, 279379, 284809, 290344, 295987, 301740, 307604, 313582,
     319677, 325890, 332223, 338680, 345262, 351972, 358813, 365786, 372895, 380143,
     387531, 395062, 402740, 410568, 418547, 426681, 434974, 443427, 452045, 460831
  >>

Units(angle) == angle \div ONE

Cos(angle) == CosTable[(Units(angle) % TwoPi) + 1]

Sin(angle) == SinTable[(Units(angle) % TwoPi) + 1]

PowPhi(angle) == PowPhiTable[Units(angle) + 1]

----------------------------------------------------------------------------
(* generate_fibonacci_points                                               *)

Point3D(x, y, z) == [x |-> x, y |-> y, z |-> z]

\* line 90: (2 * math.pi * turns) / num_points, in angle units; num_points # 0
angle_increment(num_points, turns) == FDivInt(TwoPi * turns, num_points)

\* lines 100-104: the unscaled point of index k
unscaled_point(k, inc) ==
  LET angle  == k * inc
      radius == PowPhi(angle)
  IN  <<FMul(radius, Cos(angle)), FMul(radius, Sin(angle))>>

bounding_box_init_zero == [min_x |-> 0, max_x |-> 0, min_y |-> 0, max_y |-> 0]

\* lines 94-97
bounding_box_init == [min_x |-> Inf, max_x |-> NegInf, min_y |-> Inf, max_y |-> NegInf]

\* lines 106-110
track_bounding_box(b, x, y) ==
  [min_x |-> Min2(b.min_x, x), max_x |-> Max2(b.max_x, x),
   min_y |-> Min2(b.min_y, y), max_y |-> Max2(b.max_y, y)]

max_dimension_width_only(b) == FSub(b.max_x, b.min_x)

\* lines 113-115, and lines 53-55 of the test routine
max_dimension(b) ==
  LET width      == FSub(b.max_x, b.min_x)
      height_dim == FSub(b.max_y, b.min_y)
  IN  Max2(width, height_dim)

\* line 118; max_dimension # 0
scaling_factor(scale, max_dimension_) == FDiv(scale, max_dimension_)

z_increment_closed_ramp(height, num_points) ==
  IF num_points > 1 THEN FDivInt(height, num_points - 1) ELSE 0

\* line 121
z_increment(height, num_points) ==
  IF num_points > 0 THEN FDivInt(height, num_points) ELSE 0

current_z_init_one == ONE

\* line 124
current_z_init == 0

next_z_decrement(z, z_increment_) == z - z_increment_

\* line 135
next_z(z, z_increment_) == z + z_increment_

\* lines 84-97: the entry of the generator.  The division of line 90 raises
\* ZeroDivisionError for num_points = 0.
GenBegin ==
  /\ pc = "gen_begin"
  /\ points' = <<>>
  /\ unscaled_points' = <<>>
  /\ i' = 0
  /\ IF args.num_points = 0
     THEN /\ raised_line' = 90
          /\ pc' = "gen_raised"
          /\ UNCHANGED bbox
     ELSE /\ bbox' = bounding_box_init
          /\ pc' = "gen_points"
          /\ UNCHANGED raised_line
  /\ UNCHANGED <<caller, args, max_dim, factor, z_inc, current_z, test_vars, host_vars>>

\* lines 99-110: one pass of the first loop
GenUnscaledPoint ==
  /\ pc = "gen_points"
  /\ i < args.num_points
  /\ LET p == unscaled_point(i, angle_increment(args.num_points, args.turns))
     IN  /\ unscaled_points' = Append(unscaled_points, p)
         /\ bbox' = track_bounding_box(bbox, p[1], p[2])
  /\ i' = i + 1
  /\ UNCHANGED <<caller, pc, args, max_dim, factor, z_inc, current_z, points,
                 raised_line, test_vars, host_vars>>

\* lines 112-124: after the first loop.  The division of line 118 raises
\* ZeroDivisionError for max_dimension = 0.
GenScaling ==
  /\ pc = "gen_points"
  /\ i >= args.num_points
  /\ max_dim' = max_dimension(bbox)
  /\ IF max_dim' = 0
     THEN /\ raised_line' = 118
          /\ pc' = "gen_raised"
          /\ UNCHANGED <<factor, z_inc, current_z, i>>
     ELSE /\ factor' = scaling_factor(args.scale, max_dim')
          /\ z_inc' = z_increment(args.height, args.num_points)
          /\ current_z' = current_z_init
          /\ i' = 0
          /\ pc' = "gen_scaled"
          /\ UNCHANGED raised_line
  /\ UNCHANGED <<caller, args, unscaled_points, bbox, points, test_vars, host_vars>>

\* lines 125-135: one pass of the second loop
GenScaledPoint ==
  /\ pc = "gen_scaled"
  /\ i < Len(unscaled_points)
  /\ LET x_scaled == FMul(unscaled_points[i + 1][1], factor)
         y_scaled == FMul(unscaled_points[i + 1][2], factor)
     IN  points' = Append(points, Point3D(x_scaled, y_scaled, current_z))
  /\ current_z' = next_z(current_z, z_inc)
  /\ i' = i + 1
  /\ UNCHANGED <<caller, pc, args, unscaled_points, bbox, max_dim, factor, z_inc,
                 raised_line, test_vars, host_vars>>

\* line 137
GenReturn ==
  /\ pc = "gen_scaled"
  /\ i >= Len(unscaled_points)
  /\ pc' = "gen_returned"
  /\ UNCHANGED <<caller, args, gen_vars, test_vars, host_vars>>

----------------------------------------------------------------------------
(* get_bounding_box and test_spiral_dimensions                             *)

MinOf(S) == CHOOSE m \in S : \A v \in S : m <= v

MaxOf(S) == CHOOSE m \in S : \A v \in S : m >= v

Xs(pts) == {pts[k].x : k \in 1..Len(pts)}

Ys(pts) == {pts[k].y : k \in 1..Len(pts)}

Zs(pts) == {pts[k].z : k \in 1..Len(pts)}

\* lines 27-37
get_bounding_box(pts) ==
  IF pts = <<>> THEN [min_x |-> 0, max_x |-> 0, min_y |-> 0, max_y |-> 0]
  ELSE [min_x |-> MinOf(Xs(pts)), max_x |-> MaxOf(Xs(pts)),
        min_y |-> MinOf(Ys(pts)), max_y |-> MaxOf(Ys(pts))]

TestCase(num_points, scale, turns, height) ==
  [num_points |-> num_points, scale |-> scale, turns |-> turns, height |-> height]

\* lines 41-47
test_cases_table ==
  << TestCase(100, 100 * ONE, ONE,        0),
     TestCase(200,  50 * ONE, 2 * ONE,    0),
     TestCase( 50, 200 * ONE, ONE \div 2, 0),
     TestCase(100, 100 * ONE, ONE,        50 * ONE),
     TestCase( 50, 100 * ONE, ONE,        25 * ONE) >>

tolerance_of_height(scale, height) == FMul(height, ONE \div 100)

\* line 58: scale * 0.01
tolerance(scale, height) == FMul(scale, ONE \div 100)

\* lines 68-70
actual_height(pts) == MaxOf(Zs(pts)) - MinOf(Zs(pts))

\* what the routine returned (or that the generator's fault left it) and the
\* lines it printed, by their first words
TestOutcome(outcome, value, output) ==
  [outcome |-> outcome, value |-> value, output |-> output]

NoArgs == TestCase(0, 0, 0, 0)

\* lines 49-50 and 79-80: the head of the loop calls the generator on the
\* next row, or the routine prints and returns True after the last row
TestNextCase ==
  /\ caller = "test"
  /\ pc \in {"start", "test_next"}
  /\ IF case_idx > Len(test_cases)
     THEN /\ test_result' = TestOutcome("returned", TRUE, <<"All tests passed!">>)
          /\ pc' = "done"
          /\ UNCHANGED args
     ELSE /\ args' = test_cases[case_idx]
          /\ pc' = "gen_begin"
          /\ UNCHANGED test_result
  /\ UNCHANGED <<caller, gen_vars, test_cases, case_idx, host_vars>>

\* lines 51-77: the checks of one row.  A fault of the generator leaves the
\* routine, which has no try block.
TestCheck ==
  /\ caller = "test"
  /\ pc \in {"gen_returned", "gen_raised"}
  /\ IF pc = "gen_raised"
     THEN /\ test_result' = TestOutcome("raised", FALSE, <<>>)
          /\ pc' = "done"
          /\ UNCHANGED case_idx
     ELSE LET max_dim_out == max_dimension(get_bounding_box(points))
              tol         == tolerance(args.scale, args.height)
          IN  IF Abs(max_dim_out - args.scale) > tol
              THEN /\ test_result' = TestOutcome("returned", FALSE,
                         <<"Test failed for scale", "Expected max dimension",
                           "Actual max dimension", "Bounding box">>)
                   /\ pc' = "done"
                   /\ UNCHANGED case_idx
              ELSE IF args.height > 0 /\ Abs(actual_height(points) - args.height) > tol
              THEN /\ test_result' = TestOutcome("returned", FALSE,
                         <<"Test failed for height", "Expected height",
                           "Actual height", "Z range">>)
                   /\ pc' = "done"
                   /\ UNCHANGED case_idx
              ELSE /\ case_idx' = case_idx + 1
                   /\ pc' = "test_next"
                   /\ UNCHANGED test_result
  /\ UNCHANGED <<caller, args, gen_vars, test_cases, host_vars>>

----------------------------------------------------------------------------
(* FibonacciSpiralCommandExecuteHandler.notify                             *)

HostOutcome(outcome, message_boxes, propagated, curves) ==
  [outcome |-> outcome, message_boxes |-> message_boxes,
   propagated |-> propagated, curves |-> curves]

except_clause_reraise(ui) == HostOutcome("raised", <<>>, TRUE, 0)

\* lines 236-238: the bare except and its message box
except_clause(ui) ==
  HostOutcome("caught", IF ui THEN <<"Failed">> ELSE <<>>, FALSE, 0)

\* lines 220-231: one fitted spline, or a line per pair of consecutive points
sketch_curves(pts, use_splines) ==
  IF use_splines THEN 1 ELSE Max2(Len(pts) - 1, 0)

\* lines 192-218: up to the call of the generator.  host.ui: the global ui is
\* truthy; host.has_doc: app.activeDocument is set; host.api_fault: a call of
\* the host API in lines 210-215 raises.  With no document, ui.messageBox is
\* called on ui, which raises when ui is None.
HostBegin ==
  /\ caller = "host"
  /\ pc = "start"
  /\ IF ~host.has_doc
     THEN /\ host_result' = IF host.ui
                            THEN HostOutcome("no_document", <<"No active document">>, FALSE, 0)
                            ELSE except_clause(host.ui)
          /\ pc' = "done"
     ELSE IF host.api_fault
     THEN /\ host_result' = except_clause(host.ui)
          /\ pc' = "done"
     ELSE /\ pc' = "gen_begin"
          /\ UNCHANGED host_result
  /\ UNCHANGED <<caller, args, gen_vars, test_vars, host>>

\* lines 218-238: after the generator
HostFinish ==
  /\ caller = "host"
  /\ pc \in {"gen_returned", "gen_raised"}
  /\ host_result' = IF pc = "gen_raised"
                    THEN except_clause(host.ui)
                    ELSE HostOutcome("completed", <<>>, FALSE,
                                     sketch_curves(points, host.use_splines))
  /\ pc' = "done"
  /\ UNCHANGED <<caller, args, gen_vars, test_vars, host>>

----------------------------------------------------------------------------
(* The inputs.                                                             *)

MaxNumPoints == 24

MaxHeight == 2

NumPointsDomain == (-2)..MaxNumPoints

ScaleDomain == {ONE, 50 * ONE, 100 * ONE, 200 * ONE}

TurnsDomain == {ONE \div 2, ONE, 2 * ONE}

HeightDomain == {h * ONE : h \in 0..MaxHeight} \cup {25 * ONE, 50 * ONE}

\* every angle i * angle_increment is a whole number of angle units
WholeAngles(a) ==
  a.num_points # 0 => (TwoPi * a.turns) % (Abs(a.num_points) * ONE) = 0

Inputs ==
  {a \in [num_points : NumPointsDomain, scale : ScaleDomain,
          turns : TurnsDomain, height : HeightDomain] : WholeAngles(a)}
  \cup {test_cases_table[k] : k \in 1..Len(test_cases_table)}

\* what the command inputs hold when the handler runs
HostInputs == {a \in Inputs : a.scale = 100 * ONE /\ a.height \in {0, 25 * ONE}}

\* the table of the source, and tables that take the loop of the routine
\* through a failing check at the first row, at a middle row and at no row
TestTables ==
  { test_cases_table,
    <<>>,
    << TestCase(4, 50 * ONE, ONE, ONE) >>,
    << TestCase(10, 100 * ONE, ONE, 50 * ONE) >>,
    << TestCase(10, 100 * ONE, ONE, 0), TestCase(10, ONE, ONE, 50 * ONE),
       TestCase(5, 100 * ONE, ONE, 0) >>,
    << TestCase(5, 50 * ONE, 2 * ONE, 0), TestCase(10, 100 * ONE, ONE, ONE),
       TestCase(8, 200 * ONE, 2 * ONE, 25 * ONE), TestCase(2, ONE, ONE, 0) >>,
    << TestCase(10, 100 * ONE, ONE, 0), TestCase(1, 100 * ONE, ONE, 0) >> }

Hosts == [ui : BOOLEAN, has_doc : BOOLEAN, api_fault : BOOLEAN, use_splines : BOOLEAN]

NoHost == [ui |-> FALSE, has_doc |-> FALSE, api_fault |-> FALSE, use_splines |-> FALSE]

----------------------------------------------------------------------------
(* The runs: a direct call of the generator, the test routine, or the      *)
(* execute handler.                                                        *)

Init ==
  /\ caller \in {"direct", "test", "host"}
  /\ pc = IF caller = "direct" THEN "gen_begin" ELSE "start"
  /\ args \in CASE caller = "direct" -> Inputs
                [] caller = "test"   -> {NoArgs}
                [] caller = "host"   -> HostInputs
  /\ test_cases \in IF caller = "test" THEN TestTables ELSE {<<>>}
  /\ case_idx = 1
  /\ host \in IF caller = "host" THEN Hosts ELSE {NoHost}
  /\ i = 0
  /\ unscaled_points = <<>>
  /\ bbox = bounding_box_init
  /\ max_dim = 0
  /\ factor = 0
  /\ z_inc = 0
  /\ current_z = 0
  /\ points = <<>>
  /\ raised_line = 0
  /\ test_result = TestOutcome("none", FALSE, <<>>)
  /\ host_result = HostOutcome("none", <<>>, FALSE, 0)

Next ==
  \/ GenBegin
  \/ GenUnscaledPoint
  \/ GenScaling
  \/ GenScaledPoint
  \/ GenReturn
  \/ TestNextCase
  \/ TestCheck
  \/ HostBegin
  \/ HostFinish

Spec == Init /\ [][Next]_vars

----------------------------------------------------------------------------
(* Properties.                                                             *)

GenReturned == pc = "gen_returned"

GenRaised == pc = "gen_raised"

GenEnded == GenReturned \/ GenRaised

\* the larger side of the planar bounding box of a list of points
LargerSide(xs, ys) == Max2(MaxOf(xs) - MinOf(xs), MaxOf(ys) - MinOf(ys))

UnscaledXs == {unscaled_points[k][1] : k \in 1..Len(unscaled_points)}

UnscaledYs == {unscaled_points[k][2] : k \in 1..Len(unscaled_points)}

\* C1: for every num_points >= 0 the generator returns a sequence of
\* exactly num_points points.
C1_LengthIsNumPoints ==
  (GenEnded /\ args.num_points >= 0)
    => (GenReturned /\ Len(points) = args.num_points)

\* C2: for every num_points <= 0 the generator returns the empty sequence
\* and raises nothing.
C2_NonPositiveReturnsEmpty ==
  (GenEnded /\ args.num_points <= 0)
    => (GenReturned /\ points = <<>> /\ raised_line = 0)

\* C3: for num_points > 1 and scale > 0 the larger side of the planar
\* bounding box of the returned points is within 1% of scale, and every
\* unscaled point was multiplied by the one factor scale / max_dimension,
\* max_dimension being the larger bounding-box side of the unscaled points.
C3_BoundingBoxIsScale ==
  (GenReturned /\ args.num_points > 1 /\ args.scale > 0)
    => /\ Len(points) = Len(unscaled_points)
       /\ 100 * Abs(LargerSide(Xs(points), Ys(points)) - args.scale) <= args.scale
       /\ max_dim = LargerSide(UnscaledXs, UnscaledYs)
       /\ factor = FDiv(args.scale, max_dim)
       /\ \A k \in 1..Len(points) :
            /\ points[k].x = FMul(unscaled_points[k][1], factor)
            /\ points[k].y = FMul(unscaled_points[k][2], factor)

\* a call returned a spiral that is taller than wide
C3_Witness ==
  /\ GenReturned
  /\ args.num_points > 1
  /\ Len(points) = args.num_points
  /\ MaxOf(UnscaledYs) - MinOf(UnscaledYs) > MaxOf(UnscaledXs) - MinOf(UnscaledXs)

\* C4: for num_points > 1, scale > 0 and height > 0 the z-range of the
\* returned points is within 1% of height.
C4_ZRangeWithinOnePercent ==
  (GenReturned /\ args.num_points > 1 /\ args.scale > 0 /\ args.height > 0)
    => 100 * Abs((MaxOf(Zs(points)) - MinOf(Zs(points))) - args.height) <= args.height

\* C5: for num_points > 1 and height > 0 the z values of the returned
\* points are non-decreasing in sequence order.
C5_ZNonDecreasing ==
  (GenReturned /\ args.num_points > 1 /\ args.height > 0)
    => \A a \in 1..Len(points) : \A b \in 1..Len(points) :
         a < b => points[a].z <= points[b].z

\* a call with height > 0 returned points whose z rises
C5_Witness ==
  /\ GenReturned
  /\ args.num_points > 1
  /\ args.height > 0
  /\ Len(points) = args.num_points
  /\ points[1].z < points[Len(points)].z

\* C6: when height is 0, every point of a returned sequence has z = 0.
C6_FlatWhenHeightZero ==
  (GenReturned /\ args.height = 0)
    => \A k \in 1..Len(points) : points[k].z = 0

\* a call with height 0 returned several points
C6_Witness ==
  /\ GenReturned
  /\ args.height = 0
  /\ Len(points) > 1

\* C7 as stated: for every num_points <= 1 max_dimension is 0 and the
\* division of the scaling step raises.
C7_FaultForAllUpToOne ==
  (GenEnded /\ args.num_points <= 1)
    => (GenRaised /\ raised_line = 118 /\ max_dim = 0)

\* C7, amended: for num_points = 1 the one unscaled point makes
\* max_dimension 0 and the division of the scaling step (line 118) raises,
\* nothing is returned and the fault reaches the caller; for num_points = 0
\* the division of line 90 raises before any bounding box is computed; for
\* num_points < 0 max_dimension is -inf, nothing raises and the empty
\* sequence is returned.
C7_FaultAtOnePoint ==
  /\ (GenEnded /\ args.num_points = 1)
       => /\ GenRaised
          /\ raised_line = 118
          /\ Len(unscaled_points) = 1
          /\ max_dim = 0
          /\ points = <<>>
  /\ (GenEnded /\ args.num_points = 0)
       => (GenRaised /\ raised_line = 90 /\ unscaled_points = <<>>)
  /\ (GenEnded /\ args.num_points < 0)
       => (GenReturned /\ max_dim = NegInf /\ points = <<>>)
  /\ (caller = "test" /\ pc = "done" /\ raised_line # 0)
       => test_result.outcome = "raised"

\* the generator raised at the scaling step of a one-point spiral
C7_Witness ==
  /\ GenRaised
  /\ args.num_points = 1
  /\ raised_line = 118

\* the row the test loop is at passes the checks of the routine
RowPasses ==
  /\ 100 * Abs(LargerSide(Xs(points), Ys(points)) - args.scale) <= args.scale
  /\ args.height > 0
       => 100 * Abs((MaxOf(Zs(points)) - MinOf(Zs(points))) - args.height) <= args.scale

\* C8: test_spiral_dimensions goes on to the next row only when the row
\* passes the bounding-box check and, for height > 0, the z-range check,
\* each with tolerance 1% of the row's scale; at the first row that fails
\* it prints a diagnostic and returns False with the remaining rows not
\* run; it returns True only after the last row.
C8_TestReturnsTrueOnlyIfAllPass ==
  [][ /\ (caller = "test" /\ GenReturned /\ RowPasses)
          => /\ pc' = "test_next"
             /\ case_idx' = case_idx + 1
             /\ test_result' = test_result
      /\ (caller = "test" /\ GenReturned /\ ~RowPasses)
          => /\ pc' = "done"
             /\ case_idx' = case_idx
             /\ test_result'.outcome = "returned"
             /\ test_result'.value = FALSE
             /\ Len(test_result'.output) = 4
      /\ (caller = "test" /\ test_result'.outcome = "returned" /\ test_result'.value)
          => /\ case_idx > Len(test_cases)
             /\ pc \in {"start", "test_next"}
      /\ (caller = "test" /\ pc = "done") => pc' = "done"
    ]_vars

\* the routine returned False at a row that has rows before and after it
C8_Witness ==
  /\ caller = "test"
  /\ pc = "done"
  /\ test_result.outcome = "returned"
  /\ ~test_result.value
  /\ test_result.output[1] = "Test failed for height"
  /\ 1 < case_idx
  /\ case_idx < Len(test_cases)

\* C9: for num_points >= 2 the point of index i has z = i * (height /
\* num_points): the first z is 0, the last is height - height / num_points
\* (to the resolution of the numbers), and no z reaches height when
\* height > 0.
C9_ZRampOneStepShort ==
  (GenReturned /\ args.num_points >= 2)
    => LET n    == args.num_points
           step == args.height \div n
       IN  /\ Len(points) = n
           /\ \A k \in 1..n : points[k].z = (k - 1) * step
           /\ points[1].z = 0
           /\ (args.height - step) - points[n].z >= 0
           /\ (args.height - step) - points[n].z < n
           /\ args.height > 0 => \A k \in 1..n : points[k].z < args.height

\* a call with height > 0 returned at least two points
C9_Witness ==
  /\ GenReturned
  /\ args.num_points >= 2
  /\ args.height > 0
  /\ Len(points) = args.num_points
  /\ points[Len(points)].z > 0

HostEnded == caller = "host" /\ pc = "done"

\* a fault was raised inside the try block of notify
FaultInNotify ==
  \/ ~host.has_doc /\ ~host.ui
  \/ host.has_doc /\ host.api_fault
  \/ raised_line # 0

====
